---------------------------- MODULE Spec2Model ----------------------------
(***************************************************************************)
(* A model of logit (src/bin/logit.py): the work-time log derived from     *)
(* commit histories.                                                       *)
(*                                                                         *)
(* Values.  A text is a sequence of one-character strings.  A timestamp    *)
(* (end_date) is a whole number of seconds: git records author dates with  *)
(* one-second resolution.  A duration is a float in the program; here it   *)
(* is a whole number of ticks, Res ticks to the second, so that durations  *)
(* strictly between 1 s and 2 s exist.                                     *)
(***************************************************************************)
EXTENDS Integers, Sequences, FiniteSets, TLC

\* Ticks per second of the durations of the model.
Res == 2
\* Longest input sequence handed to one stage.
MaxLen == 3
\* Longest list of title expressions handed to clean_titles.
MaxExps == 2
\* Most commits walked in one run, over all repositories.
MaxCommits == 3

\* timedelta.seconds lies in 0 .. 86399: the days are a separate field.
SecondsPerDay == 86400
\* The default of --start-up-time, in seconds.
DefaultStartUp == 3600 * 3

NL == "\n"
SP == " "

Min(a, b) == IF a <= b THEN a ELSE b

SeqsUpTo(S, n) == UNION {[1..k -> S] : k \in 0..n}

-----------------------------------------------------------------------------
(* LogEntry *)

LogEntry(title, author, duration, end_date, repo) ==
    [title |-> title, author |-> author, duration |-> duration,
     end_date |-> end_date, repo |-> repo]

\* kwargs is a record of the fields to replace.
patch(self, kwargs) ==
    [fld \in DOMAIN self |->
        IF fld \in DOMAIN kwargs THEN kwargs[fld] ELSE self[fld]]

-----------------------------------------------------------------------------
(* n_grams: the generator's loop, one element of `it` per round. *)

\* The loop with the stack popped one element early.
RECURSIVE n_grams_loop_pop_early(_, _, _, _, _)
n_grams_loop_pop_early(it, n, i, stack, out) ==
    IF i > Len(it) THEN out
    ELSE LET pushed == Append(stack, it[i])
             popped == IF Len(pushed) >= n THEN Tail(pushed) ELSE pushed
         IN  n_grams_loop_pop_early(it, n, i + 1, popped,
                          IF Len(popped) = n THEN Append(out, popped) ELSE out)

RECURSIVE n_grams_loop(_, _, _, _, _)
n_grams_loop(it, n, i, stack, out) ==
    IF i > Len(it) THEN out
    ELSE LET pushed == Append(stack, it[i])
             popped == IF Len(pushed) > n THEN Tail(pushed) ELSE pushed
         IN  n_grams_loop(it, n, i + 1, popped,
                          IF Len(popped) = n THEN Append(out, popped) ELSE out)

n_grams(it, n) == n_grams_loop(it, n, 1, <<>>, <<>>)

-----------------------------------------------------------------------------
(* filter_author *)

\* A filter that lets every author through.
author_any(l, author) == TRUE

\* The lambda of line 125.
author_is(l, author) == l.author = author

filter_author(logs, author) ==
    SelectSeq(logs, LAMBDA l : author_is(l, author))

-----------------------------------------------------------------------------
(* fix_durations *)

\* A sort that puts an element before its equals.
RECURSIVE insert_sorted_unstable(_, _)
insert_sorted_unstable(s, l) ==
    IF s = <<>> THEN <<l>>
    ELSE IF s[Len(s)].end_date < l.end_date THEN Append(s, l)
    ELSE Append(insert_sorted_unstable(SubSeq(s, 1, Len(s) - 1), l), s[Len(s)])

\* sorted(logs, key=end_date): stable, an element goes after its equals.
RECURSIVE insert_sorted(_, _)
insert_sorted(s, l) ==
    IF s = <<>> THEN <<l>>
    ELSE IF s[Len(s)].end_date <= l.end_date THEN Append(s, l)
    ELSE Append(insert_sorted(SubSeq(s, 1, Len(s) - 1), l), s[Len(s)])

RECURSIVE sorted_from(_, _, _)
sorted_from(logs, i, acc) ==
    IF i > Len(logs) THEN acc
    ELSE sorted_from(logs, i + 1, insert_sorted(acc, logs[i]))

sorted(logs) == sorted_from(logs, 1, <<>>)

\* (a - b).seconds of two timestamps: the seconds field of the normalised
\* timedelta, which leaves out the days.
timedelta_seconds(a, b) == (a - b) % SecondsPerDay

\* Line 142, with the seconds counted in ticks like the duration.
fixed_duration(p, n) ==
    Min(n.duration, timedelta_seconds(n.end_date, p.end_date) * Res)

fix_durations(logs) ==
    LET s == sorted(logs)
        grams == n_grams(s, 2)
    IN  IF Len(s) = 0 THEN <<>>
        ELSE <<s[1]>> \o
             [k \in 1..Len(grams) |->
                patch(grams[k][2],
                      [duration |-> fixed_duration(grams[k][1], grams[k][2])])]

-----------------------------------------------------------------------------
(* zero_out *)

\* The cutoff at "at least one second".
keeps_from_one(l) == l.duration >= 1 * Res

keeps(l) == l.duration > 1 * Res

zero_out(logs) == SelectSeq(logs, keeps)

-----------------------------------------------------------------------------
(* Texts: str.strip, str.split *)

is_space(c) == c \in {SP, NL}

RECURSIVE lstrip(_)
lstrip(s) ==
    IF s # <<>> /\ is_space(s[1]) THEN lstrip(Tail(s)) ELSE s

RECURSIVE rstrip(_)
rstrip(s) ==
    IF s # <<>> /\ is_space(s[Len(s)])
    THEN rstrip(SubSeq(s, 1, Len(s) - 1)) ELSE s

strip(s) == rstrip(lstrip(s))

\* s.split(sep): the pieces between the separators, at least one piece.
RECURSIVE split_loop(_, _, _, _)
split_loop(s, sep, piece, out) ==
    IF s = <<>> THEN Append(out, piece)
    ELSE IF s[1] = sep THEN split_loop(Tail(s), sep, <<>>, Append(out, piece))
    ELSE split_loop(Tail(s), sep, Append(piece, s[1]), out)

split(s, sep) == split_loop(s, sep, <<>>, <<>>)

-----------------------------------------------------------------------------
(* Title expressions and re.search(exp, title, re.M)                       *)
(*                                                                         *)
(* None is the value of --title-exp when the option is not given.  The   *)
(* string expressions of the model are                                     *)
(*   line(c)   ^c(.+)$   one group: the rest of a line that starts with c  *)
(*   bare(c)   ^c        no group                                          *)
(*   broken    (         not a regular expression: re.error                *)

None == [type |-> "NoneType"]
line_exp(c) == [type |-> "str", form |-> "line", lit |-> c]
bare_exp(c) == [type |-> "str", form |-> "bare", lit |-> c]
broken_exp == [type |-> "str", form |-> "broken", lit |-> "("]

isinstance_str(exp) == exp.type = "str"

\* The indices of the lines (in `lines`) the expression matches; with re.M
\* ^ and $ anchor at every line, and . never matches a newline.
matching_lines(exp, lines) ==
    {k \in 1..Len(lines) :
        /\ lines[k] # <<>>
        /\ lines[k][1] = exp.lit
        /\ exp.form = "line" => Len(lines[k]) >= 2}

\* re.search that takes what is no regular expression for one that matches
\* nothing.
re_search_lenient(exp, title) ==
    IF exp.form = "broken" THEN [raised |-> FALSE, m |-> None]
    ELSE LET lines == split(title, NL)
             hits == matching_lines(exp, lines)
         IN  IF hits = {} THEN [raised |-> FALSE, m |-> None]
             ELSE LET k == CHOOSE h \in hits : \A g \in hits : h <= g
                  IN  [raised |-> FALSE,
                       m |-> [groups |->
                                IF exp.form = "line"
                                THEN <<Tail(lines[k])>> ELSE <<>>]]

\* re.search without re.M: ^ anchors at the start of the text only and $
\* at its end (or before a last newline), so the text is matched as its
\* first line when that is all of it.
re_search_no_M(exp, title) ==
    IF exp.form = "broken" THEN [raised |-> TRUE]
    ELSE LET lines == split(title, NL)
             whole == Len(lines) = 1 \/ (Len(lines) = 2 /\ lines[2] = <<>>)
             hits == matching_lines(exp, <<lines[1]>>)
         IN  IF hits = {} \/ (exp.form = "line" /\ ~whole)
             THEN [raised |-> FALSE, m |-> None]
             ELSE [raised |-> FALSE,
                   m |-> [groups |->
                            IF exp.form = "line"
                            THEN <<Tail(lines[1])>> ELSE <<>>]]

\* re.search: raises on a broken expression; else the leftmost match (its
\* groups) or None.
re_search(exp, title) ==
    IF exp.form = "broken" THEN [raised |-> TRUE]
    ELSE LET lines == split(title, NL)
             hits == matching_lines(exp, lines)
         IN  IF hits = {} THEN [raised |-> FALSE, m |-> None]
             ELSE LET k == CHOOSE h \in hits : \A g \in hits : h <= g
                  IN  [raised |-> FALSE,
                       m |-> [groups |->
                                IF exp.form = "line"
                                THEN <<Tail(lines[k])>> ELSE <<>>]]

-----------------------------------------------------------------------------
(* clean_titles *)

\* The body of the loop over logs (lines 166-183) for one log, from the
\* j-th expression on: the patched log, or raised.
RECURSIVE clean_title_from(_, _, _)
clean_title_from(log, exps, j) ==
    IF j > Len(exps)
    THEN [raised |-> FALSE,
          log |-> patch(log, [title |-> strip(split(log.title, NL)[1])])]
    ELSE IF ~isinstance_str(exps[j]) THEN clean_title_from(log, exps, j + 1)
    ELSE LET r == re_search(exps[j], log.title)
         IN  IF r.raised THEN [raised |-> TRUE]
             ELSE IF r.m = None THEN clean_title_from(log, exps, j + 1)
             ELSE IF Len(r.m.groups) < 1 THEN [raised |-> TRUE]
             ELSE [raised |-> FALSE,
                   log |-> patch(log, [title |-> strip(r.m.groups[1])])]

clean_title(log, exps) == clean_title_from(log, exps, 1)

\* The generator run to its end: what it yielded, and whether it ended by
\* raising.
RECURSIVE clean_titles_from(_, _, _, _)
clean_titles_from(logs, exps, i, out) ==
    IF i > Len(logs) THEN [out |-> out, raised |-> FALSE]
    ELSE LET r == clean_title(logs[i], exps)
         IN  IF r.raised THEN [out |-> out, raised |-> TRUE]
             ELSE clean_titles_from(logs, exps, i + 1, Append(out, r.log))

clean_titles(logs, exps) == clean_titles_from(logs, exps, 1, <<>>)

-----------------------------------------------------------------------------
(* State *)

VARIABLES
    args,       \* the parsed arguments: repos, start_up_time, author, title_exp
    pc,         \* where main is
    repo_i,     \* chain: the repository whose extract_logs generator runs
    opened,     \* extract_logs: Repo(repo_path) has been built
    commit_i,   \* extract_logs: the commits of the walk taken so far
    visited,    \* extract_logs: the commits already yielded
    extracted,  \* every entry extract_logs has yielded, in order
    collected,  \* the entries sorted() has drawn through filter_author
    fixed,      \* the list fix_durations returned
    zero_i,     \* zero_out: the entries of `fixed` the filter has examined
    cur,        \* the entry on its way from zero_out to the writer
    n_cleaned,  \* the entries clean_titles has been resumed for
    f,          \* the output file
    fn,         \* the stage applied on its own, "none" before
    fn_logs,    \* its input sequence
    fn_arg,     \* its second argument, in a record
    fn_out      \* what it returned or yielded, and whether it raised

main_vars == <<args, pc, repo_i, opened, commit_i, visited, extracted,
               collected, fixed, zero_i, cur, n_cleaned, f>>
fn_vars == <<fn, fn_logs, fn_arg, fn_out>>
vars == <<main_vars, fn_vars>>

-----------------------------------------------------------------------------
(* Inputs of the model *)

Title1 == <<"F", "a", NL, "a", "b">>
Title2 == <<SP, "a", SP, NL, "F", "b">>
Title3 == <<"F">>
Title4 == <<"F", SP, "a", SP>>
Title5 == <<"a">>

\* The values of --start-up-time: negative, a second and a half, the
\* default.
StartUpTimes == {0 - Res, (3 * Res) \div 2, DefaultStartUp * Res}

\* The entries the stages are applied to on their own.
Entries ==
    { LogEntry(Title1, "me", DefaultStartUp * Res, 0, "r"),
      LogEntry(Title2, "me", DefaultStartUp * Res, 30, "r"),
      LogEntry(Title3, "you", 2 * Res, 30, "s"),
      LogEntry(Title4, "Me", (3 * Res) \div 2, 31, "r"),
      LogEntry(Title5, "me", Res, SecondsPerDay + 30, "s"),
      LogEntry(Title1, "me", 0 - Res, SecondsPerDay, "r") }

Exps == {None, line_exp("F"), line_exp("a"), bare_exp("F"), broken_exp}

Authors == {"me", "you"}

-----------------------------------------------------------------------------
(* The stages applied on their own *)

MainOff ==
    /\ args = [repos |-> <<>>, start_up_time |-> 0, author |-> "me",
               title_exp |-> None]
    /\ pc = "off"
    /\ repo_i = 1 /\ opened = FALSE /\ commit_i = 0 /\ visited = {}
    /\ extracted = <<>> /\ collected = <<>> /\ fixed = <<>>
    /\ zero_i = 0 /\ cur = None /\ n_cleaned = 0
    /\ f = [state |-> "none", exists |-> FALSE, header |-> FALSE,
            rows |-> <<>>]

\* What a call that returns gives: its value, and nothing raised.
returned(out) == [out |-> out, raised |-> FALSE]

InitStages ==
    /\ MainOff
    /\ fn = "none"
    /\ fn_logs \in SeqsUpTo(Entries, MaxLen)
    /\ fn_arg = None
    /\ fn_out = returned(<<>>)

ApplyNGrams ==
    /\ fn = "none"
    /\ \E n \in 1..3 :
        /\ fn_arg' = [n |-> n]
        /\ fn_out' = returned(n_grams(fn_logs, n))
    /\ fn' = "n_grams"
    /\ UNCHANGED <<fn_logs, main_vars>>

ApplyFilterAuthor ==
    /\ fn = "none"
    /\ \E a \in Authors :
        /\ fn_arg' = [author |-> a]
        /\ fn_out' = returned(filter_author(fn_logs, a))
    /\ fn' = "filter_author"
    /\ UNCHANGED <<fn_logs, main_vars>>

ApplyFixDurations ==
    /\ fn = "none"
    /\ fn_out' = returned(fix_durations(fn_logs))
    /\ fn' = "fix_durations"
    /\ UNCHANGED <<fn_logs, fn_arg, main_vars>>

ApplyZeroOut ==
    /\ fn = "none"
    /\ fn_out' = returned(zero_out(fn_logs))
    /\ fn' = "zero_out"
    /\ UNCHANGED <<fn_logs, fn_arg, main_vars>>

ApplyCleanTitles ==
    /\ fn = "none"
    /\ \E exps \in SeqsUpTo(Exps, MaxExps) :
        /\ fn_arg' = [exps |-> exps]
        /\ fn_out' = clean_titles(fn_logs, exps)
    /\ fn' = "clean_titles"
    /\ UNCHANGED <<fn_logs, main_vars>>

NextStages ==
    \/ ApplyNGrams
    \/ ApplyFilterAuthor
    \/ ApplyFixDurations
    \/ ApplyZeroOut
    \/ ApplyCleanTitles

SpecStages == InitStages /\ [][NextStages]_vars

-----------------------------------------------------------------------------
(* main *)

Commit(message, author, authored_datetime) ==
    [message |-> message, author |-> author,
     authored_datetime |-> authored_datetime]

\* The commits a walk of a repository's references can meet.
Commits ==
    { Commit(Title1, "me", 0),
      Commit(Title2, "me", 30),
      Commit(Title3, "you", 29),
      Commit(Title5, "me", 30),
      Commit(Title4, "me", 32),
      Commit(Title3, "me", SecondsPerDay + 30) }

\* A repository: its base name and the commits that iterating over every
\* reference meets, in order; a commit two references reach comes twice.
Repo(name, walk) == [name |-> name, walk |-> walk]

\* One repository or two, MaxCommits commits walked at most.
RepoLists ==
    LET W == SeqsUpTo(Commits, MaxCommits)
    IN  {<<Repo("r", w)>> : w \in W}
        \cup {<<Repo("r", w[1]), Repo("s", w[2])>> :
                 w \in {v \in W \X W : Len(v[1]) + Len(v[2]) <= MaxCommits}}

Init ==
    /\ args \in [repos : RepoLists,
                 start_up_time : StartUpTimes,
                 author : {"me"},
                 title_exp : {None, line_exp("F"), bare_exp("F"), broken_exp}]
    /\ pc = "extract"
    /\ repo_i = 1 /\ opened = FALSE /\ commit_i = 0 /\ visited = {}
    /\ extracted = <<>> /\ collected = <<>> /\ fixed = <<>>
    /\ zero_i = 0 /\ cur = None /\ n_cleaned = 0
    /\ f = [state |-> "none", exists |-> FALSE, header |-> FALSE,
            rows |-> <<>>]
    /\ fn = "off" /\ fn_logs = <<>> /\ fn_arg = None
    /\ fn_out = [out |-> <<>>, raised |-> FALSE]

\* extract_logs, resumed for the first time: lines 104-105.
OpenRepo ==
    /\ pc = "extract" /\ repo_i <= Len(args.repos) /\ ~opened
    /\ opened' = TRUE
    /\ visited' = {}
    /\ commit_i' = 0
    /\ UNCHANGED <<args, pc, repo_i, extracted, collected, fixed, zero_i,
                   cur, n_cleaned, f, fn_vars>>

\* Repo(repo_path) raises: no repository at the path.
OpenRepoFails ==
    /\ pc = "extract" /\ repo_i <= Len(args.repos) /\ ~opened
    /\ pc' = "raised"
    /\ UNCHANGED <<args, repo_i, opened, commit_i, visited, extracted,
                   collected, fixed, zero_i, cur, n_cleaned, f, fn_vars>>

\* One round of the loops of lines 107-117, and of the filter and the
\* sort that draw from them: a commit not yet visited is yielded, and
\* collected when its author is the one asked for.
ExtractCommit ==
    /\ pc = "extract" /\ repo_i <= Len(args.repos) /\ opened
    /\ commit_i < Len(args.repos[repo_i].walk)
    /\ LET repo == args.repos[repo_i]
           commit == repo.walk[commit_i + 1]
           entry == LogEntry(commit.message, commit.author,
                             args.start_up_time, commit.authored_datetime,
                             repo.name)
       IN  /\ commit_i' = commit_i + 1
           /\ visited' = visited \cup {commit}
           /\ extracted' = IF commit \notin visited
                           THEN Append(extracted, entry) ELSE extracted
           /\ collected' = IF commit \notin visited
                              /\ author_is(entry, args.author)
                           THEN Append(collected, entry) ELSE collected
    /\ UNCHANGED <<args, pc, repo_i, opened, fixed, zero_i, cur, n_cleaned,
                   f, fn_vars>>

\* The generator of one repository is exhausted: chain goes to the next.
RepoDone ==
    /\ pc = "extract" /\ repo_i <= Len(args.repos) /\ opened
    /\ commit_i = Len(args.repos[repo_i].walk)
    /\ repo_i' = repo_i + 1
    /\ opened' = FALSE
    /\ commit_i' = 0
    /\ visited' = {}
    /\ UNCHANGED <<args, pc, extracted, collected, fixed, zero_i, cur,
                   n_cleaned, f, fn_vars>>

\* Every generator is exhausted: sorted() returns and fix_durations runs to
\* its end; lines 211-212 build the two lazy stages without running them.
FixDurations ==
    /\ pc = "extract" /\ repo_i > Len(args.repos)
    /\ fixed' = fix_durations(collected)
    /\ pc' = "open"
    /\ UNCHANGED <<args, repo_i, opened, commit_i, visited, extracted,
                   collected, zero_i, cur, n_cleaned, f, fn_vars>>

\* export, line 191.
ExportOpen ==
    /\ pc = "open"
    /\ f' = [state |-> "open", exists |-> TRUE, header |-> FALSE,
             rows |-> <<>>]
    /\ pc' = "header"
    /\ UNCHANGED <<args, repo_i, opened, commit_i, visited, extracted,
                   collected, fixed, zero_i, cur, n_cleaned, fn_vars>>

\* open() raises.
ExportOpenFails ==
    /\ pc = "open"
    /\ pc' = "raised"
    /\ UNCHANGED <<args, repo_i, opened, commit_i, visited, extracted,
                   collected, fixed, zero_i, cur, n_cleaned, f, fn_vars>>

\* Line 193.
WriteHeader ==
    /\ pc = "header"
    /\ f' = [f EXCEPT !.header = TRUE]
    /\ pc' = "pull"
    /\ UNCHANGED <<args, repo_i, opened, commit_i, visited, extracted,
                   collected, fixed, zero_i, cur, n_cleaned, fn_vars>>

\* An exception that leaves the file open: no with statement.
raise_without_close ==
    /\ f' = f
    /\ pc' = "raised"

\* The with statement's exit on an exception: the file is closed, the
\* exception goes on.
raise_in_with ==
    /\ f' = [f EXCEPT !.state = "closed"]
    /\ pc' = "raised"

\* A writerow raises (lines 193, 196).
WriteFails ==
    /\ pc \in {"header", "write"}
    /\ raise_in_with
    /\ UNCHANGED <<args, repo_i, opened, commit_i, visited, extracted,
                   collected, fixed, zero_i, cur, n_cleaned, fn_vars>>

\* zero_out run when main calls it, before export: a list, not a filter.
ZeroOutNext_eager ==
    /\ pc \in {"open", "pull"} /\ zero_i < Len(fixed)
    /\ zero_i' = zero_i + 1
    /\ IF keeps(fixed[zero_i + 1]) /\ pc = "pull"
       THEN cur' = fixed[zero_i + 1] /\ pc' = "clean"
       ELSE UNCHANGED <<cur, pc>>
    /\ UNCHANGED <<args, repo_i, opened, commit_i, visited, extracted,
                   collected, fixed, n_cleaned, f, fn_vars>>

\* The filter of zero_out, asked for its next entry, looks at one entry of
\* the fixed list: it hands it on or goes to the one after.
ZeroOutNext ==
    /\ pc = "pull" /\ zero_i < Len(fixed)
    /\ zero_i' = zero_i + 1
    /\ IF keeps(fixed[zero_i + 1])
       THEN cur' = fixed[zero_i + 1] /\ pc' = "clean"
       ELSE UNCHANGED <<cur, pc>>
    /\ UNCHANGED <<args, repo_i, opened, commit_i, visited, extracted,
                   collected, fixed, n_cleaned, f, fn_vars>>

\* The body of clean_titles' loop for the entry handed on: lines 166-183.
CleanTitle ==
    /\ pc = "clean"
    /\ n_cleaned' = n_cleaned + 1
    /\ LET r == clean_title(cur, <<args.title_exp>>)
       IN  IF r.raised
           THEN raise_in_with /\ UNCHANGED cur
           ELSE cur' = r.log /\ pc' = "write" /\ UNCHANGED f
    /\ UNCHANGED <<args, repo_i, opened, commit_i, visited, extracted,
                   collected, fixed, zero_i, fn_vars>>

\* Line 196.
WriteRow ==
    /\ pc = "write"
    /\ f' = [f EXCEPT !.rows = Append(@, cur)]
    /\ cur' = None
    /\ pc' = "pull"
    /\ UNCHANGED <<args, repo_i, opened, commit_i, visited, extracted,
                   collected, fixed, zero_i, n_cleaned, fn_vars>>

\* The fixed list is exhausted: the loop of line 195 ends, the with
\* statement closes the file and main returns.
ExportClose ==
    /\ pc = "pull" /\ zero_i = Len(fixed)
    /\ f' = [f EXCEPT !.state = "closed"]
    /\ pc' = "done"
    /\ UNCHANGED <<args, repo_i, opened, commit_i, visited, extracted,
                   collected, fixed, zero_i, cur, n_cleaned, fn_vars>>

\* The close flushes what is buffered, and that write raises: the file is
\* closed all the same.
ExportCloseFails ==
    /\ pc = "pull" /\ zero_i = Len(fixed)
    /\ raise_in_with
    /\ UNCHANGED <<args, repo_i, opened, commit_i, visited, extracted,
                   collected, fixed, zero_i, cur, n_cleaned, fn_vars>>

Next ==
    \/ OpenRepo
    \/ OpenRepoFails
    \/ ExtractCommit
    \/ RepoDone
    \/ FixDurations
    \/ ExportOpen
    \/ ExportOpenFails
    \/ WriteHeader
    \/ WriteFails
    \/ ZeroOutNext
    \/ CleanTitle
    \/ WriteRow
    \/ ExportClose
    \/ ExportCloseFails

Spec == Init /\ [][Next]_vars

-----------------------------------------------------------------------------
(* Properties of the stages *)

Perms(n) == {p \in [1..n -> 1..n] : \A i, j \in 1..n : p[i] = p[j] => i = j}

SameButDuration(a, b) ==
    /\ a.title = b.title /\ a.author = b.author
    /\ a.end_date = b.end_date /\ a.repo = b.repo

SameButTitle(a, b) ==
    /\ a.author = b.author /\ a.duration = b.duration
    /\ a.end_date = b.end_date /\ a.repo = b.repo

\* The k-th smallest member of a set of numbers.
KthOf(K, k) == CHOOSE i \in K : Cardinality({j \in K : j <= i}) = k

\* The whole seconds from timestamp b to timestamp a, days included.
FullGap(a, b) == a - b

\* C1: every entry of fix_durations' output but the first has the duration
\* min(input duration, full gap in seconds to its predecessor in the sorted
\* order).
C1_DurationIsMinOfFullGap ==
    fn = "fix_durations" =>
        LET s == sorted(fn_logs)
        IN  \A k \in 2..Len(fn_out.out) :
                fn_out.out[k].duration =
                    Min(s[k].duration,
                        FullGap(s[k].end_date, s[k - 1].end_date) * Res)

\* C2: fix_durations returns as many entries as it is given, ascending by
\* end_date, equal end_dates in their input order; the first keeps its
\* duration, a later one has at most min(input duration, gap to its
\* predecessor); an empty input gives an empty output.
C2_FixDurationsShape ==
    fn = "fix_durations" =>
        LET n == Len(fn_logs)
        IN  /\ Len(fn_out.out) = n
            /\ fn_logs = <<>> => fn_out.out = <<>>
            /\ \A k \in 1..(n - 1) :
                  fn_out.out[k].end_date <= fn_out.out[k + 1].end_date
            /\ \E p \in Perms(n) :
                /\ \A k \in 1..n :
                      SameButDuration(fn_out.out[k], fn_logs[p[k]])
                /\ \A j, k \in 1..n :
                      j < k /\ fn_out.out[j].end_date = fn_out.out[k].end_date
                          => p[j] < p[k]
                /\ n >= 1 =>
                      fn_out.out[1].duration = fn_logs[p[1]].duration
                /\ \A k \in 2..n :
                      fn_out.out[k].duration <=
                          Min(fn_logs[p[k]].duration,
                              FullGap(fn_out.out[k].end_date,
                                      fn_out.out[k - 1].end_date) * Res)

\* Three entries given latest first, two of them distinct with one end_date,
\* the last one shortened.
C2_Witness ==
    /\ fn = "fix_durations"
    /\ Len(fn_out.out) = 3
    /\ fn_logs[1].end_date > fn_logs[3].end_date
    /\ fn_out.out[2].end_date = fn_out.out[3].end_date
    /\ ~SameButDuration(fn_out.out[2], fn_out.out[3])
    /\ \E k \in 1..3 : SameButDuration(fn_logs[k], fn_out.out[3])
                          /\ fn_out.out[3].duration < fn_logs[k].duration

\* C3: zero_out returns exactly the entries of duration > 1 s, unchanged
\* and in their input order.
C3_ZeroOutKeepsAboveOne ==
    fn = "zero_out" =>
        LET K == {i \in 1..Len(fn_logs) : fn_logs[i].duration > Res}
        IN  /\ Len(fn_out.out) = Cardinality(K)
            /\ \A k \in 1..Len(fn_out.out) :
                  fn_out.out[k] = fn_logs[KthOf(K, k)]

\* An entry of exactly 1 s is dropped after an entry of 1.5 s that is kept.
C3_Witness ==
    /\ fn = "zero_out"
    /\ Len(fn_logs) = 3
    /\ Len(fn_out.out) = 2
    /\ fn_logs[2].duration = Res
    /\ fn_out.out[1] = fn_logs[1] /\ fn_out.out[1].duration < 2 * Res
    /\ fn_out.out[2] = fn_logs[3]

\* The expressions of a list that are strings, each with one group.
WellFormed(exps) ==
    \A j \in 1..Len(exps) : isinstance_str(exps[j]) => exps[j].form = "line"

\* The expressions of the list that are strings and match the title.
MatchingExps(exps, title) ==
    {j \in 1..Len(exps) :
        /\ isinstance_str(exps[j])
        /\ matching_lines(exps[j], split(title, NL)) # {}}

\* The first line of a text: all of it up to its first newline.
FirstLine(t) ==
    LET nl == {i \in 1..Len(t) : t[i] = NL}
    IN  IF nl = {} THEN t ELSE SubSeq(t, 1, KthOf(nl, 1) - 1)

\* The group of line_exp(c) on a title: what follows c on the first line
\* that starts with c and is longer than c.
GroupOf(exp, title) ==
    LET starts == {i \in 1..Len(title) :
                      /\ title[i] = exp.lit
                      /\ i = 1 \/ title[i - 1] = NL
                      /\ i < Len(title) /\ title[i + 1] # NL}
        i0 == KthOf(starts, 1)
    IN  FirstLine(SubSeq(title, i0 + 1, Len(title)))

Trimmed(t) == t = <<>> \/ (~is_space(t[1]) /\ ~is_space(t[Len(t)]))

\* t is u without some spaces and newlines at its two ends.
TrimOf(t, u) ==
    /\ Trimmed(t)
    /\ \E a, b \in 0..Len(u) :
        /\ a + b <= Len(u)
        /\ t = SubSeq(u, a + 1, Len(u) - b)
        /\ \A i \in (1..a) \cup ((Len(u) - b + 1)..Len(u)) : is_space(u[i])

C10_NGramsPairs ==
    fn = "n_grams" /\ fn_arg = [n |-> 2] =>
        /\ Len(fn_out.out) =
              IF Len(fn_logs) < 2 THEN 0 ELSE Len(fn_logs) - 1
        /\ \A i \in 1..Len(fn_out.out) :
              fn_out.out[i] = <<fn_logs[i], fn_logs[i + 1]>>

C10_Witness ==
    /\ fn = "n_grams" /\ fn_arg = [n |-> 2]
    /\ Len(fn_logs) = 3
    /\ fn_logs[1] # fn_logs[2] /\ fn_logs[2] # fn_logs[3]
    /\ fn_out.out =
          <<<<fn_logs[1], fn_logs[2]>>, <<fn_logs[2], fn_logs[3]>>>>

-----------------------------------------------------------------------------
(* Properties of main *)

Done == pc = "done"
Raised == pc = "raised"
Broken == args.title_exp = broken_exp

\* The entries of the fixed list that zero_out hands on.
Survivors == {i \in 1..Len(fixed) : keeps(fixed[i])}

\* Those of them zero_out has looked at.
SurvivorsSeen == {i \in Survivors : i <= zero_i}

ExtractionOver == repo_i > Len(args.repos)

\* C5: a run whose title expression is malformed never completes.
C5_BrokenExpNeverDone == Broken => ~Done

\* C5, amended: a malformed title expression fails the run where it is first
\* used: on the first entry that reaches clean_titles, after the output was
\* opened, and with no row written; a run completes with it only when no
\* entry reaches clean_titles.
C5_BrokenExpFailsOnFirstUse ==
    Broken =>
        /\ f.rows = <<>>
        /\ pc # "write"
        /\ n_cleaned > 0 => Raised /\ n_cleaned = 1 /\ f.state = "closed"
        /\ Done => Survivors = {} /\ n_cleaned = 0

C5_Witness ==
    Broken /\ Raised /\ n_cleaned = 1 /\ f.header /\ Len(fixed) >= 2

\* extract_logs has an entry left to yield: a commit not yet walked that
\* is new in its repository.
ExtractionLeft ==
    \E i \in 1..Len(args.repos) :
        LET walk == args.repos[i].walk
        IN  \E j \in 1..Len(walk) :
                /\ i > repo_i \/ (i = repo_i /\ j > commit_i)
                /\ \A k \in 1..(j - 1) : walk[k] # walk[j]

\* C6: no stage handles an entry while the stage before it has entries left
\* to process; clean_titles is through with every entry before export opens
\* the output.
C6_EachStageFinishesFirst ==
    /\ collected # <<>> => ~ExtractionLeft
    /\ zero_i > 0 => pc # "extract"
    /\ n_cleaned > 0 \/ pc = "clean" => zero_i = Len(fixed)
    /\ f.state # "none" => n_cleaned = Cardinality(Survivors)

\* C6, amended: only fix_durations waits for all of its input: every
\* commit is extracted and filtered before it returns, and it has returned
\* before any later stage acts.  After it the stages take turns entry by
\* entry: export opens the output and writes the header before zero_out
\* looks at an entry, and an entry that zero_out hands on is cleaned and
\* written before zero_out looks at the next one.
C6_StagesTakeTurns ==
    /\ pc \notin {"extract", "raised"} \/ zero_i > 0 \/ n_cleaned > 0
           \/ f.state # "none"
           => ExtractionOver /\ fixed = fix_durations(collected)
    /\ pc = "extract" =>
           zero_i = 0 /\ n_cleaned = 0 /\ f.state = "none" /\ fixed = <<>>
    /\ zero_i > 0 => f.state # "none" /\ f.header
    /\ Cardinality(SurvivorsSeen) =
           Len(f.rows) + (IF cur # None THEN 1 ELSE 0)
    /\ n_cleaned =
           Len(f.rows) + (IF cur # None /\ pc # "clean" THEN 1 ELSE 0)
    /\ pc \in {"clean", "write"} => cur # None

\* One row is written and zero_out has not yet looked at a later entry,
\* which it will hand on.
C6_Witness ==
    /\ pc = "pull" /\ Len(f.rows) = 1
    /\ zero_i < Len(fixed) /\ keeps(fixed[zero_i + 1])

\* C7: once opened the output is closed when main ends, however it ends; a
\* run in which clean_titles or a write raised does not end as done; the
\* file stays where it is with the rows written before.
C7_ClosedOnEveryExit ==
    /\ Done \/ Raised => f.state # "open"
    /\ f.state # "none" => f.exists
    /\ Done => f.header /\ n_cleaned = Len(f.rows)
                  /\ Len(f.rows) = Cardinality(Survivors)

\* clean_titles raises (no group in the expression) on a later entry, after
\* a row was written.
C7_Witness ==
    /\ Raised /\ f.state = "closed" /\ f.exists
    /\ Len(f.rows) >= 1 /\ n_cleaned > Len(f.rows)

DurationsOf(logs) == [k \in 1..Len(logs) |-> logs[k].duration]

\* The entries of the author asked for, in chronological order.
Mine == sorted(SelectSeq(extracted, LAMBDA l : l.author = args.author))

\* The duration of the k-th of them after fixing.
MineDuration(k) ==
    IF k = 1 THEN Mine[1].duration ELSE fixed_duration(Mine[k - 1], Mine[k])

\* C8: what a run that completes has exported: the entries of the author
\* whose fixed duration is above 1 s, in chronological order, the gaps taken
\* between the author's entries alone; of two such entries of 10800 s,
\* 30 s apart, the first with 10800 s and the second with 30 s; of two with
\* one end_date, the first only.
C8_Exported ==
    Done =>
        LET K == {k \in 1..Len(Mine) : MineDuration(k) > Res}
        IN  /\ Len(f.rows) = Cardinality(K)
            /\ \A i \in 1..Len(f.rows) :
                  LET k == KthOf(K, i)
                  IN  /\ SameButDuration(
                            patch(f.rows[i], [title |-> Mine[k].title]),
                            Mine[k])
                      /\ f.rows[i].duration = MineDuration(k)
                      /\ f.rows[i].title =
                            clean_title(Mine[k], <<args.title_exp>>).log.title
            /\ Len(Mine) = 2 /\ args.start_up_time = DefaultStartUp * Res =>
                /\ Mine[2].end_date = Mine[1].end_date + 30 =>
                      DurationsOf(f.rows) = <<10800 * Res, 30 * Res>>
                /\ Mine[2].end_date = Mine[1].end_date =>
                      /\ DurationsOf(f.rows) = <<10800 * Res>>
                      /\ fixed[2].duration = 0

\* The two entries 30 s apart, a commit of another author between them.
C8_Witness ==
    /\ Done
    /\ Len(extracted) = 3 /\ Len(Mine) = 2
    /\ extracted[2].author # args.author
    /\ extracted[2].end_date > Mine[1].end_date
    /\ extracted[2].end_date < Mine[2].end_date
    /\ DurationsOf(f.rows) = <<10800 * Res, 30 * Res>>

\* C9: no entry of any stage has a negative duration.
C9_DurationsNonNegative ==
    /\ \A k \in 1..Len(extracted) : extracted[k].duration >= 0
    /\ \A k \in 1..Len(collected) : collected[k].duration >= 0
    /\ \A k \in 1..Len(fixed) : fixed[k].duration >= 0
    /\ cur # None => cur.duration >= 0
    /\ \A k \in 1..Len(f.rows) : f.rows[k].duration >= 0

=============================================================================
